---- MODULE Spec2Model ----
(***************************************************************************)
(* A model of src/app/scripts/common/mathutil.ts: the immutable Point and  *)
(* Matrix value types and the free geometry functions built on them.       *)
(*                                                                         *)
(* Numbers.  A JavaScript number is modelled as a sign-magnitude rational  *)
(* [s, n, d] standing for s*n/d, with the IEEE-754 special values kept:    *)
(*     n = 0, d = 1      +0 and -0 (told apart by s)                       *)
(*     n = 1, d = 0      +Infinity and -Infinity                           *)
(*     n = 0, d = 0      NaN                                               *)
(* Finite values are exact: rounding of float64 is not modelled, so every  *)
(* statement below is about exact arithmetic extended with the IEEE rules  *)
(* for zero, Infinity and NaN.                                             *)
(***************************************************************************)
EXTENDS Integers, Sequences, FiniteSets, TLC

VARIABLES fn, argM, argP, argN, retM, retP, retN, retB

vars == <<fn, argM, argP, argN, retM, retP, retN, retB>>

----------------------------------------------------------------------------
(* JavaScript number arithmetic *)

AbsInt(i) == IF i < 0 THEN -i ELSE i

SignInt(i) == IF i < 0 THEN -1 ELSE 1

RECURSIVE Gcd(_, _)
Gcd(x, y) == IF y = 0 THEN x ELSE Gcd(y, x % y)

NaN == [s |-> 1, n |-> 0, d |-> 0]

Infinity == [s |-> 1, n |-> 1, d |-> 0]

\* s*n/d in lowest terms; 0/0 is NaN, n/0 is an Infinity, 0/d is a zero
Norm(s, n, d) ==
  IF n = 0 /\ d = 0 THEN NaN
  ELSE LET g == Gcd(n, d) IN [s |-> s, n |-> n \div g, d |-> d \div g]

\* the number an integer literal denotes
Num(i) == [s |-> SignInt(i), n |-> AbsInt(i), d |-> 1]

IsNaN(x) == x.n = 0 /\ x.d = 0

IsFinite(x) == x.d # 0

IsZero(x) == x.n = 0 /\ x.d # 0

\* unary minus
Neg(x) == IF IsNaN(x) THEN x ELSE [x EXCEPT !.s = -x.s]

\* x * y: 0 * Infinity is NaN, the sign is the product of the signs
Mul(x, y) == Norm(x.s * y.s, x.n * y.n, x.d * y.d)

\* x / y: x/0 is an Infinity signed by both operands, 0/0 is NaN
Div(x, y) == Norm(x.s * y.s, x.n * y.d, x.d * y.n)

\* x + y: Infinity + -Infinity is NaN; an exact zero sum is +0 unless both
\* operands are -0
Add(x, y) ==
  IF IsNaN(x) \/ IsNaN(y) THEN NaN
  ELSE IF x.d = 0 /\ y.d = 0 THEN (IF x.s = y.s THEN x ELSE NaN)
  ELSE IF x.d = 0 THEN x
  ELSE IF y.d = 0 THEN y
  ELSE LET k == x.s * x.n * y.d + y.s * y.n * x.d IN
       IF k = 0
       THEN [s |-> IF x.s = -1 /\ y.s = -1 THEN -1 ELSE 1, n |-> 0, d |-> 1]
       ELSE Norm(SignInt(k), AbsInt(k), x.d * y.d)

\* x - y
Sub(x, y) == Add(x, Neg(y))

\* x % y: the truncating remainder, signed like the dividend
Rem(x, y) ==
  IF IsNaN(x) \/ IsNaN(y) \/ x.d = 0 \/ IsZero(y) THEN NaN
  ELSE IF y.d = 0 THEN x
  ELSE Norm(x.s, (x.n * y.d) % (y.n * x.d), x.d * y.d)

\* x === y: NaN equals nothing, +0 equals -0
StrictEq(x, y) ==
  /\ ~IsNaN(x)
  /\ ~IsNaN(y)
  /\ x.n = y.n
  /\ x.d = y.d
  /\ (x.s = y.s \/ IsZero(x))

\* |x| < |y| for numbers that are not NaN
MagLt(x, y) ==
  IF x.d = 0 THEN FALSE
  ELSE IF y.d = 0 THEN TRUE
  ELSE LET qx == x.n \div x.d
           qy == y.n \div y.d
       IN  IF qx # qy THEN qx < qy
           ELSE (x.n % x.d) * y.d < (y.n % y.d) * x.d

\* -1, 0 or 1: the sign of a number that is not NaN
SignOf(x) == IF x.n = 0 THEN 0 ELSE x.s

\* x < y: false when either is NaN
Lt(x, y) ==
  /\ ~IsNaN(x)
  /\ ~IsNaN(y)
  /\ IF SignOf(x) # SignOf(y) THEN SignOf(x) < SignOf(y)
     ELSE IF SignOf(x) = 0 THEN FALSE
     ELSE IF SignOf(x) = 1 THEN MagLt(x, y)
     ELSE MagLt(y, x)

\* x > y
Gt(x, y) == Lt(y, x)

\* Math.abs
MathAbs(x) == IF IsNaN(x) THEN x ELSE [x EXCEPT !.s = 1]

\* Math.max of two numbers
MathMax(x, y) ==
  IF IsNaN(x) \/ IsNaN(y) THEN NaN
  ELSE IF Lt(x, y) THEN y
  ELSE IF Lt(y, x) THEN x
  ELSE IF x.s = 1 THEN x ELSE y

IsSquare(v) == \E r \in 0..v : r * r = v

ISqrt(v) == CHOOSE r \in 0..v : r * r = v

\* the sum of the squares of two finite numbers, over the denominator (x.d*y.d)^2
SumSq(x, y) == x.n * x.n * y.d * y.d + y.n * y.n * x.d * x.d

\* Math.hypot of two numbers has an exact value
HypotIsExact(x, y) ==
  \/ x.d = 0
  \/ y.d = 0
  \/ IsSquare(SumSq(x, y))

\* Math.hypot of two numbers: an infinite argument gives Infinity even beside NaN
MathHypot(x, y) ==
  IF (x.d = 0 /\ x.n = 1) \/ (y.d = 0 /\ y.n = 1) THEN Infinity
  ELSE IF IsNaN(x) \/ IsNaN(y) THEN NaN
  ELSE Norm(1, ISqrt(SumSq(x, y)), x.d * y.d)

----------------------------------------------------------------------------
(* Point and Matrix *)

EpsDen == 100000000

\* the literal 1e-8
Eps == [s |-> 1, n |-> 1, d |-> EpsDen]

Point(x, y) == [x |-> x, y |-> y]

Matrix(a, b, c, d, e, f) == [a |-> a, b |-> b, c |-> c, d |-> d, e |-> e, f |-> f]

\* new Matrix(): the constructor's defaults
MatrixDefault == Matrix(Num(1), Num(0), Num(0), Num(1), Num(0), Num(0))

\* a slip in transform: the coefficients b and c exchanged
TransformStepTransposed(p, m) ==
  Point(Add(Add(Mul(m.a, p.x), Mul(m.b, p.y)), Mul(m.e, Num(1))),
        Add(Add(Mul(m.c, p.x), Mul(m.d, p.y)), Mul(m.f, Num(1))))

\* one step of transform's reduce: the matrix m applied to the point p
TransformStep(p, m) ==
  Point(Add(Add(Mul(m.a, p.x), Mul(m.c, p.y)), Mul(m.e, Num(1))),
        Add(Add(Mul(m.b, p.x), Mul(m.d, p.y)), Mul(m.f, Num(1))))

RECURSIVE TransformReduce(_, _)
TransformReduce(p, matrices) ==
  IF matrices = <<>> THEN p
  ELSE TransformReduce(TransformStep(p, Head(matrices)), Tail(matrices))

transform(point, matrices) == TransformReduce(Point(point.x, point.y), matrices)

\* a slip in dot: m.b where the coefficient c needs m.d
dotSlipC(this, m) ==
  Matrix(Add(Mul(this.a, m.a), Mul(this.c, m.b)),
         Add(Mul(this.b, m.a), Mul(this.d, m.b)),
         Add(Mul(this.a, m.c), Mul(this.c, m.b)),
         Add(Mul(this.b, m.c), Mul(this.d, m.d)),
         Add(Add(Mul(this.a, m.e), Mul(this.c, m.f)), this.e),
         Add(Add(Mul(this.b, m.e), Mul(this.d, m.f)), this.f))

\* a slip in dot: the receiver's own translation left out
dotNoOffset(this, m) ==
  Matrix(Add(Mul(this.a, m.a), Mul(this.c, m.b)),
         Add(Mul(this.b, m.a), Mul(this.d, m.b)),
         Add(Mul(this.a, m.c), Mul(this.c, m.d)),
         Add(Mul(this.b, m.c), Mul(this.d, m.d)),
         Add(Mul(this.a, m.e), Mul(this.c, m.f)),
         Add(Mul(this.b, m.e), Mul(this.d, m.f)))

\* a slip in dot: the operands exchanged, m.dot(this)
dotSwapped(this, m) ==
  Matrix(Add(Mul(m.a, this.a), Mul(m.c, this.b)),
         Add(Mul(m.b, this.a), Mul(m.d, this.b)),
         Add(Mul(m.a, this.c), Mul(m.c, this.d)),
         Add(Mul(m.b, this.c), Mul(m.d, this.d)),
         Add(Add(Mul(m.a, this.e), Mul(m.c, this.f)), m.e),
         Add(Add(Mul(m.b, this.e), Mul(m.d, this.f)), m.f))

\* this.dot(m)
dot(this, m) ==
  Matrix(Add(Mul(this.a, m.a), Mul(this.c, m.b)),
         Add(Mul(this.b, m.a), Mul(this.d, m.b)),
         Add(Mul(this.a, m.c), Mul(this.c, m.d)),
         Add(Mul(this.b, m.c), Mul(this.d, m.d)),
         Add(Add(Mul(this.a, m.e), Mul(this.c, m.f)), this.e),
         Add(Add(Mul(this.b, m.e), Mul(this.d, m.f)), this.f))

\* a slip in flattenTransforms: the reducer written prev.dot(curr)
RECURSIVE FlattenReducePrevDot(_, _)
FlattenReducePrevDot(prev, matricies) ==
  IF matricies = <<>> THEN prev
  ELSE FlattenReducePrevDot(
         Matrix(Add(Mul(prev.a, Head(matricies).a), Mul(prev.c, Head(matricies).b)),
                Add(Mul(prev.b, Head(matricies).a), Mul(prev.d, Head(matricies).b)),
                Add(Mul(prev.a, Head(matricies).c), Mul(prev.c, Head(matricies).d)),
                Add(Mul(prev.b, Head(matricies).c), Mul(prev.d, Head(matricies).d)),
                Add(Add(Mul(prev.a, Head(matricies).e), Mul(prev.c, Head(matricies).f)), prev.e),
                Add(Add(Mul(prev.b, Head(matricies).e), Mul(prev.d, Head(matricies).f)), prev.f)),
         Tail(matricies))

flattenTransformsPrevDot(matricies) ==
  FlattenReducePrevDot(
    Matrix(Num(1), Num(0), Num(0), Num(1), Num(0), Num(0)), matricies)

RECURSIVE FlattenReduce(_, _)
FlattenReduce(prev, matricies) ==
  IF matricies = <<>> THEN prev
  ELSE FlattenReduce(dot(Head(matricies), prev), Tail(matricies))

flattenTransforms(matricies) == FlattenReduce(MatrixDefault, matricies)

\* a slip in invert: the coefficient b divided by the determinant, not its negation
invertSignSlip(m) ==
  Matrix(Div(m.d, Sub(Mul(m.a, m.d), Mul(m.b, m.c))),
         Div(m.b, Sub(Mul(m.a, m.d), Mul(m.b, m.c))),
         Div(m.c, Sub(Mul(m.b, m.c), Mul(m.a, m.d))),
         Div(m.a, Sub(Mul(m.a, m.d), Mul(m.b, m.c))),
         Div(Sub(Mul(m.d, m.e), Mul(m.c, m.f)), Sub(Mul(m.b, m.c), Mul(m.a, m.d))),
         Div(Sub(Mul(m.b, m.e), Mul(m.a, m.f)), Sub(Mul(m.a, m.d), Mul(m.b, m.c))))

\* a slip in invert: the translation of a singular matrix returned undivided
invertOffsetUndivided(m) ==
  Matrix(Div(m.d, Sub(Mul(m.a, m.d), Mul(m.b, m.c))),
         Div(m.b, Sub(Mul(m.b, m.c), Mul(m.a, m.d))),
         Div(m.c, Sub(Mul(m.b, m.c), Mul(m.a, m.d))),
         Div(m.a, Sub(Mul(m.a, m.d), Mul(m.b, m.c))),
         Sub(Mul(m.d, m.e), Mul(m.c, m.f)),
         Sub(Mul(m.b, m.e), Mul(m.a, m.f)))

\* m.invert()
invert(m) ==
  Matrix(Div(m.d, Sub(Mul(m.a, m.d), Mul(m.b, m.c))),
         Div(m.b, Sub(Mul(m.b, m.c), Mul(m.a, m.d))),
         Div(m.c, Sub(Mul(m.b, m.c), Mul(m.a, m.d))),
         Div(m.a, Sub(Mul(m.a, m.d), Mul(m.b, m.c))),
         Div(Sub(Mul(m.d, m.e), Mul(m.c, m.f)), Sub(Mul(m.b, m.c), Mul(m.a, m.d))),
         Div(Sub(Mul(m.b, m.e), Mul(m.a, m.f)), Sub(Mul(m.a, m.d), Mul(m.b, m.c))))

\* the images of the unit vectors under the linear part of m
ScaleVecA(m) ==
  transform(Point(Num(0), Num(1)), <<Matrix(m.a, m.b, m.c, m.d, Num(0), Num(0))>>)

ScaleVecB(m) ==
  transform(Point(Num(1), Num(0)), <<Matrix(m.a, m.b, m.c, m.d, Num(0), Num(0))>>)

\* a slip in getScale: the division without the guard on maxScale
getScaleUnguarded(m) ==
  Div(MathAbs(Sub(Mul(ScaleVecA(m).y, ScaleVecB(m).x), Mul(ScaleVecA(m).x, ScaleVecB(m).y))),
      MathMax(MathHypot(ScaleVecA(m).x, ScaleVecA(m).y),
              MathHypot(ScaleVecB(m).x, ScaleVecB(m).y)))

\* m.getScale()
getScale(m) ==
  LET vecA == ScaleVecA(m)
      vecB == ScaleVecB(m)
      scaleX == MathHypot(vecA.x, vecA.y)
      scaleY == MathHypot(vecB.x, vecB.y)
      crossProduct == Sub(Mul(vecA.y, vecB.x), Mul(vecA.x, vecB.y))
      maxScale == MathMax(scaleX, scaleY)
  IN  IF Gt(maxScale, Num(0)) THEN Div(MathAbs(crossProduct), maxScale) ELSE Num(0)

\* the doubled signed area of the triangle points[1], points[2], q
CollinearArea(points, q) ==
  LET a == points[1].x
      b == points[1].y
      m == points[2].x
      n == points[2].y
  IN  Add(Add(Mul(a, Sub(n, q.y)), Mul(m, Sub(q.y, b))), Mul(q.x, Sub(b, n)))

areCollinear(points) ==
  IF Len(points) < 3 THEN TRUE
  ELSE \A i \in 1..Len(points) : Lt(CollinearArea(points, points[i]), Eps)

\* a slip in floorMod: the remainder alone
floorModRemainder(num, maxNum) == Rem(num, maxNum)

floorMod(num, maxNum) == Rem(Add(Rem(num, maxNum), maxNum), maxNum)

----------------------------------------------------------------------------
(* The inputs the functions are applied to *)

MaxLin == 1

MaxTrans == 1

MaxCoord == 1

MaxLen == 3

MaxPoints == 3

MaxNum == 7

MaxMod == 5

IntMatrix(a, b, c, d, e, f) == Matrix(Num(a), Num(b), Num(c), Num(d), Num(e), Num(f))

IntPoint(x, y) == Point(Num(x), Num(y))

\* the sample matrix of the inversion round trip
SampleMatrix == IntMatrix(2, 0, 0, 3, 5, 7)

\* every matrix with small integer coefficients, and the sample
Mats ==
  {IntMatrix(a, b, c, d, e, f) :
     a \in -1..MaxLin, b \in -1..MaxLin, c \in -1..MaxLin, d \in -1..MaxLin,
     e \in 0..MaxTrans, f \in 0..MaxTrans}
  \cup {SampleMatrix}

\* representative transforms: a translation, the sample (scale and translation),
\* a quarter turn about a point, a singular matrix
Pool ==
  { IntMatrix(1, 0, 0, 1, 1, 2),
    SampleMatrix,
    IntMatrix(0, 1, -1, 0, 1, 0),
    IntMatrix(1, 2, 2, 4, 0, 1) }

\* the operands of dot: a small matrix on one side, a representative transform
\* or the default matrix on the other
DotPairs ==
  (Mats \X (Pool \cup {MatrixDefault})) \cup ((Pool \cup {MatrixDefault}) \X Mats)

DotTriples ==
  (Mats \X Pool \X Pool) \cup (Pool \X Mats \X Pool) \cup (Pool \X Pool \X Mats)

Points == {IntPoint(x, y) : x \in -1..MaxCoord, y \in -1..MaxCoord}

\* the points of the collinearity examples beside the small ones
LinePoints == Points \cup {IntPoint(2, 2), IntPoint(2, 3)}

SeqsUpTo(S, k) == UNION {[1..i -> S] : i \in 0..k}

Reverse(q) == [i \in 1..Len(q) |-> q[Len(q) + 1 - i]]

----------------------------------------------------------------------------
(* One call of the module per behaviour: the arguments and what it returned *)

Init ==
  /\ fn = "none"
  /\ argM = <<>>
  /\ argP = <<>>
  /\ argN = <<>>
  /\ retM = <<>>
  /\ retP = <<>>
  /\ retN = <<>>
  /\ retB = <<>>

Call(f, ms, ps, ns, rm, rp, rn, rb) ==
  /\ fn' = f
  /\ argM' = ms
  /\ argP' = ps
  /\ argN' = ns
  /\ retM' = rm
  /\ retP' = rp
  /\ retN' = rn
  /\ retB' = rb

\* m.invert()
Invert ==
  /\ fn = "none"
  /\ \E m \in Mats :
    Call("invert", <<m>>, <<>>, <<>>, <<invert(m)>>, <<>>, <<>>, <<>>)

\* transform(p, m, m.invert())
RoundTrip ==
  /\ fn = "none"
  /\ \E m \in Mats, p \in Points :
    Call("roundTrip", <<m>>, <<p>>, <<>>, <<>>, <<transform(p, <<m, invert(m)>>)>>,
         <<>>, <<>>)

\* m.dot(n)
Dot ==
  /\ fn = "none"
  /\ \E pair \in DotPairs :
    Call("dot", <<pair[1], pair[2]>>, <<>>, <<>>, <<dot(pair[1], pair[2])>>,
         <<>>, <<>>, <<>>)

\* (a.dot(b)).dot(c) and a.dot(b.dot(c))
DotDot ==
  /\ fn = "none"
  /\ \E t \in DotTriples :
    Call("dotDot", <<t[1], t[2], t[3]>>, <<>>, <<>>,
         <<dot(dot(t[1], t[2]), t[3]), dot(t[1], dot(t[2], t[3]))>>,
         <<>>, <<>>, <<>>)

\* transform(p, ...ms)
Transform ==
  /\ fn = "none"
  /\ \E ms \in SeqsUpTo(Pool, MaxLen), p \in Points :
    Call("transform", ms, <<p>>, <<>>, <<>>, <<transform(p, ms)>>, <<>>, <<>>)

\* transform(p, m.dot(n))
TransformDot ==
  /\ fn = "none"
  /\ \E pair \in DotPairs, p \in Points :
    Call("transformDot", <<pair[1], pair[2]>>, <<p>>, <<>>, <<>>,
         <<transform(p, <<dot(pair[1], pair[2])>>)>>, <<>>, <<>>)

\* flattenTransforms(ms), and transform(p, flattenTransforms(ms))
FlattenTransforms ==
  /\ fn = "none"
  /\ \E ms \in SeqsUpTo(Pool, MaxLen), p \in Points :
    Call("flattenTransforms", ms, <<p>>, <<>>, <<flattenTransforms(ms)>>,
         <<transform(p, <<flattenTransforms(ms)>>)>>, <<>>, <<>>)

\* Math.hypot is exact on both columns of m
ScaleIsExact(m) ==
  /\ HypotIsExact(ScaleVecA(m).x, ScaleVecA(m).y)
  /\ HypotIsExact(ScaleVecB(m).x, ScaleVecB(m).y)

\* m.getScale()
GetScale ==
  /\ fn = "none"
  /\ \E m \in Mats :
    /\ ScaleIsExact(m)
    /\ Call("getScale", <<m>>, <<>>, <<>>, <<>>, <<>>, <<getScale(m)>>, <<>>)

\* floorMod(num, maxNum)
FloorMod ==
  /\ fn = "none"
  /\ \E num \in -MaxNum..MaxNum, maxNum \in -1..MaxMod :
    Call("floorMod", <<>>, <<>>, <<Num(num), Num(maxNum)>>, <<>>, <<>>,
         <<floorMod(Num(num), Num(maxNum))>>, <<>>)

\* areCollinear(...points)
AreCollinear ==
  /\ fn = "none"
  /\ \E points \in SeqsUpTo(LinePoints, MaxPoints) :
    Call("areCollinear", <<>>, points, <<>>, <<>>, <<>>, <<>>, <<areCollinear(points)>>)

NextInverse == Invert \/ RoundTrip

NextDot == Dot \/ DotDot

NextTransform == Transform \/ TransformDot \/ FlattenTransforms

NextScalar == GetScale \/ FloorMod \/ AreCollinear

Next == NextInverse \/ NextDot \/ NextTransform \/ NextScalar

Spec == Init /\ [][Next]_vars

SpecInverse == Init /\ [][NextInverse]_vars

SpecDot == Init /\ [][NextDot]_vars

SpecTransform == Init /\ [][NextTransform]_vars

SpecScalar == Init /\ [][NextScalar]_vars

----------------------------------------------------------------------------
(* What the claims are stated with *)

\* both coordinates are === equal
PointEq(p, q) == StrictEq(p.x, q.x) /\ StrictEq(p.y, q.y)

\* all six coefficients are === equal
MatrixEq(m, n) ==
  /\ StrictEq(m.a, n.a)
  /\ StrictEq(m.b, n.b)
  /\ StrictEq(m.c, n.c)
  /\ StrictEq(m.d, n.d)
  /\ StrictEq(m.e, n.e)
  /\ StrictEq(m.f, n.f)

Coefficients(m) == {m.a, m.b, m.c, m.d, m.e, m.f}

\* the integer a number with denominator 1 stands for
IntOf(x) == x.s * x.n

\* a*d - b*c of a matrix with integer coefficients
Det(m) == IntOf(m.a) * IntOf(m.d) - IntOf(m.b) * IntOf(m.c)

MinInt(i, j) == IF i < j THEN i ELSE j

\* Mn.dot(Mn-1.dot(... M1.dot(new Matrix()) ...)), taken from the end of the list
RECURSIVE NestedDot(_)
NestedDot(ms) ==
  IF ms = <<>> THEN MatrixDefault
  ELSE dot(ms[Len(ms)], NestedDot(SubSeq(ms, 1, Len(ms) - 1)))

\* the doubled signed area of the triangle of three points with integer coordinates
Area2(p, q, r) ==
  (IntOf(q.x) - IntOf(p.x)) * (IntOf(r.y) - IntOf(p.y))
    - (IntOf(r.x) - IntOf(p.x)) * (IntOf(q.y) - IntOf(p.y))

\* the points, with integer coordinates, lie on one common straight line
OnOneLine(points) ==
  \A i \in 1..Len(points), j \in 1..Len(points), k \in 1..Len(points) :
    Area2(points[i], points[j], points[k]) = 0

----------------------------------------------------------------------------
(* The claims *)

\* C1: for every matrix M with a*d - b*c # 0 and every point p,
\* transform(p, M, M.invert()) has the coordinates of p.
C1_RoundTrip ==
  (fn = "roundTrip" /\ Det(argM[1]) # 0) => PointEq(retP[1], argP[1])

\* the sample of C1: M = Matrix(2,0,0,3,5,7), p = Point(1,1)
C1_Witness ==
  /\ fn = "roundTrip"
  /\ argM[1] = SampleMatrix
  /\ argP[1] = IntPoint(1, 1)
  /\ retP[1] = IntPoint(1, 1)

\* C2 as stated: transform(p, flattenTransforms([M1, ..., Mn])) equals
\* transform(p, Mn, ..., M1), the last matrix of the list applied first.
C2_LastAppliedFirst ==
  fn = "flattenTransforms" =>
    PointEq(retP[1], transform(argP[1], Reverse(argM)))

\* C2 amended: transform(p, flattenTransforms([M1, ..., Mn])) equals
\* transform(p, M1, ..., Mn): the first matrix of the list is applied first,
\* in the same left-to-right order as transform.
C2_FirstAppliedFirst ==
  fn = "flattenTransforms" =>
    PointEq(retP[1], transform(argP[1], argM))

\* a list whose reversal maps the point elsewhere
C2_Witness ==
  /\ fn = "flattenTransforms"
  /\ Len(argM) = MaxLen
  /\ PointEq(retP[1], transform(argP[1], argM))
  /\ ~PointEq(retP[1], transform(argP[1], Reverse(argM)))

\* C3: flattenTransforms([]) is the default (identity) matrix,
\* flattenTransforms([A]) equals A, flattenTransforms([A, B]) equals B.dot(A),
\* and flattenTransforms([M1, ..., Mn]) equals Mn.dot(Mn-1.dot(... M1 ...)).
C3_FlattenFold ==
  fn = "flattenTransforms" =>
    /\ Len(argM) = 0 => retM[1] = MatrixDefault
    /\ Len(argM) = 1 => MatrixEq(retM[1], argM[1])
    /\ Len(argM) = 2 => MatrixEq(retM[1], dot(argM[2], argM[1]))
    /\ MatrixEq(retM[1], NestedDot(argM))

\* a list of two matrices that do not commute
C3_Witness ==
  /\ fn = "flattenTransforms"
  /\ Len(argM) = 2
  /\ MatrixEq(retM[1], dot(argM[2], argM[1]))
  /\ ~MatrixEq(retM[1], dot(argM[1], argM[2]))

\* C4: areCollinear(...points) returns true exactly when all the points lie on
\* one common straight line, for any number of points in any order.
C4_Collinear ==
  fn = "areCollinear" => (retB[1] <=> OnOneLine(argP))

\* C5: (A.dot(B)).dot(C) equals A.dot(B.dot(C)) in all six coefficients.
C5_DotAssociative ==
  fn = "dotDot" => MatrixEq(retM[1], retM[2])

\* dot is not commutative: a triple whose first two matrices do not commute
C5_Witness ==
  /\ fn = "dotDot"
  /\ MatrixEq(retM[1], retM[2])
  /\ ~MatrixEq(dot(argM[1], argM[2]), dot(argM[2], argM[1]))

\* C6: getScale() of a matrix with b = c = 0 is min(|a|, |d|) whatever e and f
\* are; of the all-zero matrix it is 0, not NaN.
C6_AxisAlignedScale ==
  (fn = "getScale" /\ IsZero(argM[1].b) /\ IsZero(argM[1].c)) =>
    /\ retN[1] = Num(MinInt(AbsInt(IntOf(argM[1].a)), AbsInt(IntOf(argM[1].d))))
    /\ (IsZero(argM[1].a) /\ IsZero(argM[1].d)) => retN[1] = Num(0)

\* a scale of 2 by 3 with a translation: the scale is 2
C6_Witness ==
  /\ fn = "getScale"
  /\ argM[1] = SampleMatrix
  /\ retN[1] = Num(2)

\* C7: for every integer num and every positive integer maxNum, floorMod(num,
\* maxNum) is the r with 0 <= r < maxNum that is congruent to num modulo maxNum.
C7_FloorMod ==
  (fn = "floorMod" /\ IntOf(argN[2]) > 0) =>
    /\ retN[1].d = 1
    /\ retN[1].s = 1
    /\ IntOf(retN[1]) >= 0
    /\ IntOf(retN[1]) < IntOf(argN[2])
    /\ (IntOf(retN[1]) - IntOf(argN[1])) % IntOf(argN[2]) = 0

\* floorMod(-1, 5) = 4
C7_Witness ==
  /\ fn = "floorMod"
  /\ argN = <<Num(-1), Num(5)>>
  /\ retN[1] = Num(4)

\* C8: invert() returns a Matrix for every matrix: all six coefficients are
\* Infinity or NaN when a*d - b*c = 0, and all six are finite otherwise.
C8_InvertSingular ==
  fn = "invert" =>
    /\ Len(retM) = 1
    /\ Det(argM[1]) = 0 => \A x \in Coefficients(retM[1]) : ~IsFinite(x)
    /\ Det(argM[1]) # 0 => \A x \in Coefficients(retM[1]) : IsFinite(x)

\* a singular matrix whose inverse holds both an Infinity and a NaN
C8_Witness ==
  /\ fn = "invert"
  /\ Det(argM[1]) = 0
  /\ \E x \in Coefficients(retM[1]) : IsNaN(x)
  /\ \E x \in Coefficients(retM[1]) : x.n = 1 /\ x.d = 0

\* C9: new Matrix() is (1,0,0,1,0,0), and M.dot(new Matrix()) and
\* (new Matrix()).dot(M) both equal M in all six coefficients.
C9_DotIdentity ==
  /\ MatrixDefault = IntMatrix(1, 0, 0, 1, 0, 0)
  /\ (fn = "dot" /\ argM[2] = MatrixDefault) => MatrixEq(retM[1], argM[1])
  /\ (fn = "dot" /\ argM[1] = MatrixDefault) => MatrixEq(retM[1], argM[2])

\* the sample matrix times the default matrix
C9_Witness ==
  /\ fn = "dot"
  /\ argM = <<SampleMatrix, MatrixDefault>>
  /\ retM[1] = SampleMatrix

\* C10: transform(p, M.dot(N)) equals transform(p, N, M): N is applied to the
\* point first; and transform with no matrices returns the point's coordinates.
C10_DotAppliesArgumentFirst ==
  /\ fn = "transformDot" =>
       PointEq(retP[1], transform(argP[1], <<argM[2], argM[1]>>))
  /\ (fn = "transform" /\ argM = <<>>) => retP[1] = argP[1]

\* a pair for which the order matters at the point
C10_Witness ==
  /\ fn = "transformDot"
  /\ PointEq(retP[1], transform(argP[1], <<argM[2], argM[1]>>))
  /\ ~PointEq(retP[1], transform(argP[1], <<argM[1], argM[2]>>))

====
